---- MODULE Spec2Model ----
(***************************************************************************)
(* Kaleidoscope front end: the character-stream lexer (lexer.h), the       *)
(* recursive-descent operator-precedence parser and the top-level driver   *)
(* loop (parser.h, appended to ast.h).                                     *)
(*                                                                         *)
(* Characters and tokens are C ints, as in the source: a character is its  *)
(* ASCII code, a named token is a negative number of enum Token.  The      *)
(* lexer and parser are sequential code over global variables; every       *)
(* function is an operator from the record of those globals to the record  *)
(* after the call (plus the returned value), and every step of the driver  *)
(* is one action that applies the whole handler.                           *)
(***************************************************************************)
EXTENDS Integers, Sequences, FiniteSets, TLC

VARIABLES
  input,           \* the characters on stdin when the program starts
  rest,            \* the characters getchar() has not returned yet
  last_char,       \* GetToken's static int last_char
  IDENTIFIER_STR,  \* lexer.h global
  NUM_VAL,         \* lexer.h global
  cur_token,       \* parser's one-token lookahead
  BinopPrecedence, \* std::map<char,int>
  err,             \* the "Error: ..." lines LogError wrote to stderr
  pc,              \* where the program is
  ntok,            \* history: number of GetToken calls made by GetNextToken
  parsed,          \* history: the outcome of every Handle* call so far
  toks             \* history: the tokens GetToken returned (lexer harness)

vars == <<input, rest, last_char, IDENTIFIER_STR, NUM_VAL, cur_token,
          BinopPrecedence, err, pc, ntok, parsed, toks>>

-----------------------------------------------------------------------------
(* Characters *)

\* ASCII codes of the characters the inputs are built from.
Ord ==
  ("tab" :> 9) @@ ("nl" :> 10) @@ ("cr" :> 13) @@ (" " :> 32) @@ ("!" :> 33) @@
  ("#" :> 35) @@ ("(" :> 40) @@ (")" :> 41) @@ ("*" :> 42) @@ ("+" :> 43) @@
  ("," :> 44) @@ ("-" :> 45) @@ ("." :> 46) @@ ("0" :> 48) @@ ("1" :> 49) @@
  ("2" :> 50) @@ ("3" :> 51) @@ ("4" :> 52) @@ ("5" :> 53) @@ ("6" :> 54) @@
  ("7" :> 55) @@ ("8" :> 56) @@ ("9" :> 57) @@ (";" :> 59) @@ ("<" :> 60) @@ ("D" :> 68) @@ ("d" :> 100) @@ ("e" :> 101) @@
  ("f" :> 102) @@ ("g" :> 103) @@ ("n" :> 110) @@ ("r" :> 114) @@
  ("t" :> 116) @@ ("x" :> 120) @@ ("y" :> 121)

\* A C string: the codes of a tuple of characters.
Str(w) == [i \in 1..Len(w) |-> Ord[w[i]]]

EOF == -1

token_eof == -1
token_def == -2
token_extern == -3
token_identifier == -4
token_number == -5

Char == 0..255

\* <cctype> in the "C" locale; all are false of EOF.
SpaceChars == {9, 10, 11, 12, 13, 32}
AlphaChars == (65..90) \cup (97..122)
DigitChars == 48..57
AlnumChars == AlphaChars \cup DigitChars
isspace(c) == c \in SpaceChars
isalpha(c) == c \in AlphaChars
isdigit(c) == c \in DigitChars
isalnum(c) == c \in AlnumChars

\* IsSpace of lexer.h (declared; GetToken calls isspace, not IsSpace).
IsSpace(ch) == ch = 32 \/ ch = 9

\* Length of the longest prefix of s whose elements are all in S: the number
\* of iterations of a loop  while (c in S) c = getchar().
Span(s, S) ==
  CHOOSE n \in 0..Len(s) :
    /\ \A i \in 1..n : s[i] \in S
    /\ n < Len(s) => s[n + 1] \notin S

Drop(s, n) == SubSeq(s, n + 1, Len(s))

\* F(v), with v evaluated once: the value of a call is computed when the
\* call is made and then only looked at, as in the sequential code.
Bind(v, F(_)) == CHOOSE r \in {F(x) : x \in {v}} : TRUE

-----------------------------------------------------------------------------
(* std::stod on a text of digits and '.' *)

RECURSIVE DecVal(_)
DecVal(ds) ==
  IF ds = <<>> THEN 0
  ELSE 10 * DecVal(SubSeq(ds, 1, Len(ds) - 1)) + (ds[Len(ds)] - 48)

RECURSIVE StripZeros(_)
StripZeros(ds) ==
  IF ds # <<>> /\ ds[Len(ds)] = 48 THEN StripZeros(SubSeq(ds, 1, Len(ds) - 1))
  ELSE ds

\* A double that is a short decimal: integer part and the fraction's digits
\* without trailing zeros, so "1", "1." and "1.0" are the same value.
Double(ip, fp) == [ip |-> ip, fp |-> fp]

\* std::stod converts the longest prefix that is a floating-point literal
\* (digits, at most one '.', digits) and ignores what follows it; when no
\* prefix converts (no digit around the first '.') it throws
\* std::invalid_argument.
stod(num_str) ==
  LET ni == Span(num_str, DigitChars)
      afterInt == Drop(num_str, ni)
      hasDot == afterInt # <<>> /\ Head(afterInt) = 46
      fracSrc == IF hasDot THEN Tail(afterInt) ELSE <<>>
      nf == Span(fracSrc, DigitChars)
  IN  [throws |-> ni + nf = 0,
       val |-> Double(DecVal(SubSeq(num_str, 1, ni)),
                      StripZeros(SubSeq(fracSrc, 1, nf)))]

-----------------------------------------------------------------------------
(* lexer.h: GetToken *)

Stream_ReadsOn(s) == IF s.last_char = EOF THEN s.rest ELSE <<s.last_char>> \o s.rest

\* The characters GetToken still has to look at: last_char, then stdin.  At
\* end of input last_char stays EOF and getchar() is not called again.
Stream(s) == IF s.last_char = EOF THEN <<>> ELSE <<s.last_char>> \o s.rest

\* The globals once last_char holds the first character of str and stdin the
\* rest of it (getchar() returns EOF, again and again, at the end of input).
AtStream(s, str) ==
  [s EXCEPT !.last_char = IF str = <<>> THEN EOF ELSE Head(str),
            !.rest = IF str = <<>> THEN <<>> ELSE Tail(str)]

\* What GetToken hands back: the globals after the call, the returned token,
\* whether std::stod threw instead of returning, and (history) how many
\* characters were still unread when the token's first character was
\* reached, the text that was scanned for it, the characters the
\* whitespace loop skipped during the call and whether the call went
\* through the comment branch.
Lexed(s, tok, thrown, start, text) ==
  [s |-> s, tok |-> tok, thrown |-> thrown, start |-> start, text |-> text,
   skipped |-> <<>>, commented |-> FALSE]

\* History: the whitespace loop skipped ws before r was scanned.
Skipping(ws, r) == [r EXCEPT !.skipped = ws \o @]

\* History: r was scanned after a comment.
Commented(r) == [r EXCEPT !.commented = TRUE]

SkipWhitespace_IsSpace(str) == Span(str, {32, 9})

\* while (isspace(last_char)) last_char = getchar();  the number of
\* characters of str it goes past.
SkipWhitespace(str) == Span(str, SpaceChars)

IdentifierToken_Prefix(id) ==
  IF Len(id) >= 3 /\ SubSeq(id, 1, 3) = Str(<<"d", "e", "f">>) THEN token_def
  ELSE IF id = Str(<<"e", "x", "t", "e", "r", "n">>) THEN token_extern
  ELSE token_identifier

IdentifierToken(id) ==
  IF id = Str(<<"d", "e", "f">>) THEN token_def
  ELSE IF id = Str(<<"e", "x", "t", "e", "r", "n">>) THEN token_extern
  ELSE token_identifier

SkipComment_NewlineOnly(s1) == Drop(Tail(s1), Span(Tail(s1), Char \ {10}))

\* The comment branch's loop: from the '#' on, read until last_char is EOF,
\* '\n' or '\r'; what is left starts with that terminator.
SkipComment(s1) == Drop(Tail(s1), Span(Tail(s1), Char \ {10, 13}))

RECURSIVE GetToken(_)
GetToken(s) ==
  \* s1: what is left once  while (isspace(last_char))  has run.
  Bind(Drop(Stream(s), SkipWhitespace(Stream(s))), LAMBDA s1 :
    LET c == IF s1 = <<>> THEN EOF ELSE Head(s1)
    IN  Skipping(SubSeq(Stream(s), 1, Len(Stream(s)) - Len(s1)),
        IF isalpha(c) THEN
          LET n == 1 + Span(Tail(s1), AlnumChars)
              id == SubSeq(s1, 1, n)
          IN  Lexed([AtStream(s, Drop(s1, n)) EXCEPT !.IDENTIFIER_STR = id],
                    IdentifierToken(id), FALSE, Len(s1), id)
        ELSE IF isdigit(c) \/ c = 46 THEN
          LET n == Span(s1, DigitChars \cup {46})
              num_str == SubSeq(s1, 1, n)
              v == stod(num_str)
          IN  IF v.throws
              THEN Lexed(AtStream(s, Drop(s1, n)), token_eof, TRUE, Len(s1), num_str)
              ELSE Lexed([AtStream(s, Drop(s1, n)) EXCEPT !.NUM_VAL = v.val],
                         token_number, FALSE, Len(s1), num_str)
        ELSE IF c = 35 THEN
          Bind(SkipComment(s1), LAMBDA s2 :
            Commented(IF s2 # <<>> THEN GetToken(AtStream(s, s2))
                      ELSE Lexed(AtStream(s, <<>>), token_eof, FALSE, 0, <<>>)))
        ELSE IF c = EOF THEN
          Lexed(AtStream(s, <<>>), token_eof, FALSE, 0, <<>>)
        ELSE
          Lexed(AtStream(s, Tail(s1)), c, FALSE, Len(s1), <<c>>)))

-----------------------------------------------------------------------------
(* The globals as one record *)

Globals ==
  [last_char |-> last_char, rest |-> rest, IDENTIFIER_STR |-> IDENTIFIER_STR,
   NUM_VAL |-> NUM_VAL, cur_token |-> cur_token,
   BinopPrecedence |-> BinopPrecedence, err |-> err, ntok |-> ntok,
   aborted |-> FALSE, nulls |-> <<>>, calls |-> <<>>, nparen |-> 0,
   raised |-> <<>>]

\* The globals of a program that has just started on the input str.
StartGlobals(str) ==
  [last_char |-> 32, rest |-> str, IDENTIFIER_STR |-> <<>>,
   NUM_VAL |-> Double(0, <<>>), cur_token |-> 0,
   BinopPrecedence |-> <<>>, err |-> <<>>, ntok |-> 0,
   aborted |-> FALSE, nulls |-> <<>>, calls |-> <<>>, nparen |-> 0,
   raised |-> <<>>]

SetGlobals(s) ==
  /\ last_char' = s.last_char
  /\ rest' = s.rest
  /\ IDENTIFIER_STR' = s.IDENTIFIER_STR
  /\ NUM_VAL' = s.NUM_VAL
  /\ cur_token' = s.cur_token
  /\ BinopPrecedence' = s.BinopPrecedence
  /\ err' = s.err
  /\ ntok' = s.ntok

-----------------------------------------------------------------------------
(* ast.h: the AST classes *)

Null == [kind |-> "null"]   \* nullptr
NumberExprAST(val) == [kind |-> "Number", val |-> val]
VariableExprAST(name) == [kind |-> "Variable", name |-> name]
BinaryExprAST(op, LHS, RHS) == [kind |-> "Binary", op |-> op, LHS |-> LHS, RHS |-> RHS]
CallExprAST(callee, args) == [kind |-> "Call", callee |-> callee, args |-> args]
PrototypeAST(name, args) == [kind |-> "Prototype", name |-> name, args |-> args]
FunctionAST(proto, body) == [kind |-> "Function", proto |-> proto, body |-> body]

-----------------------------------------------------------------------------
(* parser: token buffer and error helpers *)

\* A call's outcome: the globals after it and the returned pointer.
Ret(s, node) == [s |-> s, node |-> node]

\* History: a parse function that returns nullptr is noted in s.nulls; one
\* that returns a node is noted in s.calls with the node, the LHS it was
\* given (ParseBinOpRHS), the number of tokens pulled before entry (globals
\* s0) and from entry to exit, the number of parenthesized expressions
\* closed meanwhile, and the current token at exit.
Returns(rule, s0, lhs, ret) ==
  Bind(ret, LAMBDA r :
    IF r.node = Null THEN Ret([r.s EXCEPT !.nulls = Append(@, rule)], Null)
    ELSE Ret([r.s EXCEPT !.calls =
                Append(@, [rule |-> rule, node |-> r.node, lhs |-> lhs,
                           from |-> s0.ntok, pulled |-> r.s.ntok - s0.ntok,
                           parens |-> r.s.nparen - s0.nparen,
                           at |-> r.s.cur_token])],
             r.node))

\* cur_token = GetToken().  When std::stod throws inside GetToken nothing
\* catches it: the process terminates.  The model notes it in s.aborted and,
\* so that the enclosing operators unwind, reads end-of-input from then on;
\* a driver step that finds s.aborted goes to "aborted" and keeps nothing
\* else of what was computed after the throw.
GetNextToken(s) ==
  Bind(s, LAMBDA g :
    IF g.aborted THEN g
    ELSE Bind(GetToken(g), LAMBDA r :
           IF r.thrown
           THEN [r.s EXCEPT !.aborted = TRUE, !.cur_token = token_eof, !.ntok = @ + 1]
           ELSE [r.s EXCEPT !.cur_token = r.tok, !.ntok = @ + 1]))

\* fprintf(stderr, "Error: %s\n", str); return nullptr.  History: the
\* current token and the number of tokens pulled so far are noted in
\* s.raised.
LogError(s, str) ==
  Ret([s EXCEPT !.err = Append(@, str),
                !.raised = Append(@, [tok |-> s.cur_token, n |-> s.ntok])],
      Null)

LogErrorP(s, str) == Ret(LogError(s, str).s, Null)

-----------------------------------------------------------------------------
(* parser: expressions *)

GetTokenPrecedence_NoFloor(s) ==
  Bind(s, LAMBDA g :
    IF g.cur_token \notin 0..127 THEN [s |-> g, prec |-> -1]
    ELSE LET m == IF g.cur_token \in DOMAIN g.BinopPrecedence
                  THEN g.BinopPrecedence
                  ELSE g.BinopPrecedence @@ (g.cur_token :> 0)
         IN  [s |-> [g EXCEPT !.BinopPrecedence = m], prec |-> m[g.cur_token]])

\* GetTokenPrecedence: -1 unless cur_token is a declared binary operator.
\* std::map::operator[] inserts the key with value 0 when it is absent.
GetTokenPrecedence(s) ==
  Bind(s, LAMBDA g :
    IF g.cur_token \notin 0..127 THEN [s |-> g, prec |-> -1]
    ELSE LET m == IF g.cur_token \in DOMAIN g.BinopPrecedence
                  THEN g.BinopPrecedence
                  ELSE g.BinopPrecedence @@ (g.cur_token :> 0)
             token_prec == m[g.cur_token]
         IN  [s |-> [g EXCEPT !.BinopPrecedence = m],
              prec |-> IF token_prec <= 0 THEN -1 ELSE token_prec])

\* ParseBinOpRHS line 246: the operator after RHS takes RHS as its LHS.
RhsBindsTighter_Never(tok_prec, next_prec) == FALSE

RhsBindsTighter(tok_prec, next_prec) == tok_prec < next_prec

Merge_Swapped(binop, LHS, RHS) == BinaryExprAST(binop, RHS, LHS)

\* ParseBinOpRHS lines 253-254.
Merge(binop, LHS, RHS) == BinaryExprAST(binop, LHS, RHS)

RECURSIVE ParseExpression(_), ParsePrimary(_), ParseParenExpr(_),
          ParseIdentifierExpr(_), ParseArgs(_, _), ParseBinOpRHS(_, _, _),
          BinOpLoop(_, _, _)

ParseNumberExpr(s) ==
  Returns("ParseNumberExpr", s, Null,
          Ret(GetNextToken(s), NumberExprAST(s.NUM_VAL)))

\* History: one more parenthesized expression has been parsed.
Closed(s) == [s EXCEPT !.nparen = @ + 1]

ParseParenExpr_KeepsClose(s) ==
  Bind(ParseExpression(GetNextToken(s)), LAMBDA V :
    Returns("ParseParenExpr", s, Null,
      IF V.node = Null THEN Ret(V.s, Null)
      ELSE IF V.s.cur_token # 41 THEN LogError(V.s, "expected ')'")
      ELSE Ret(Closed(V.s), V.node)))

ParseParenExpr_PrimaryOnly(s) ==
  Bind(ParsePrimary(GetNextToken(s)), LAMBDA V :
    Returns("ParseParenExpr", s, Null,
      IF V.node = Null THEN Ret(V.s, Null)
      ELSE IF V.s.cur_token # 41 THEN LogError(V.s, "expected ')'")
      ELSE Ret(Closed(GetNextToken(V.s)), V.node)))

ParseParenExpr_LogsAgain(s) ==
  Bind(ParseExpression(GetNextToken(s)), LAMBDA V :
    Returns("ParseParenExpr", s, Null,
      IF V.node = Null THEN LogError(V.s, "expected expression")
      ELSE IF V.s.cur_token # 41 THEN LogError(V.s, "expected ')'")
      ELSE Ret(Closed(GetNextToken(V.s)), V.node)))

ParseParenExpr(s) ==
  Bind(ParseExpression(GetNextToken(s)), LAMBDA V :     \* eat (.
    Returns("ParseParenExpr", s, Null,
      IF V.node = Null THEN Ret(V.s, Null)
      ELSE IF V.s.cur_token # 41 THEN LogError(V.s, "expected ')'")
      ELSE Ret(Closed(GetNextToken(V.s)), V.node)))       \* eat ).

PushArg_Front(args, arg) == <<arg>> \o args

\* args.push_back(std::move(arg))
PushArg(args, arg) == Append(args, arg)

\* The while (true) loop of ParseIdentifierExpr, entered with cur_token at
\* the first token of an argument; it leaves with cur_token = ')' and the
\* arguments, or with nullptr.
ParseArgs(s, args) ==
  Bind(ParseExpression(s), LAMBDA arg :
    IF arg.node = Null THEN Ret(arg.s, Null)
    ELSE IF arg.s.cur_token = 41
         THEN Ret(arg.s, [kind |-> "args", list |-> PushArg(args, arg.node)])
    ELSE IF arg.s.cur_token # 44
         THEN LogError(arg.s, "Expected ')' or ',' in argument list")
    ELSE ParseArgs(GetNextToken(arg.s), PushArg(args, arg.node)))

ParseIdentifierExpr(s) ==
  Bind(GetNextToken(s), LAMBDA s1 :       \* eat identifier.
    Returns("ParseIdentifierExpr", s, Null,
      IF s1.cur_token # 40 THEN Ret(s1, VariableExprAST(s.IDENTIFIER_STR))
      ELSE Bind(GetNextToken(s1), LAMBDA s2 :      \* eat (
             Bind(IF s2.cur_token # 41 THEN ParseArgs(s2, <<>>)
                  ELSE Ret(s2, [kind |-> "args", list |-> <<>>]), LAMBDA A :
               IF A.node = Null THEN Ret(A.s, Null)
               ELSE Ret(GetNextToken(A.s),         \* eat the ')'
                        CallExprAST(s.IDENTIFIER_STR, A.node.list))))))

ParsePrimary_EatsUnknown(s) ==
  Bind(s, LAMBDA g :
    Returns("ParsePrimary", g, Null,
      IF g.cur_token = token_identifier THEN ParseIdentifierExpr(g)
      ELSE IF g.cur_token = token_number THEN ParseNumberExpr(g)
      ELSE IF g.cur_token = 40 THEN ParseParenExpr(g)
      ELSE Ret(GetNextToken(
                 LogError(g, "unknown token when expecting an expression").s),
               Null)))

ParsePrimary(s) ==
  Bind(s, LAMBDA g :
    Returns("ParsePrimary", g, Null,
      IF g.cur_token = token_identifier THEN ParseIdentifierExpr(g)
      ELSE IF g.cur_token = token_number THEN ParseNumberExpr(g)
      ELSE IF g.cur_token = 40 THEN ParseParenExpr(g)
      ELSE LogError(g, "unknown token when expecting an expression")))

ParseExpression(s) ==
  Bind(s, LAMBDA g :
    Bind(ParsePrimary(g), LAMBDA LHS :
      Returns("ParseExpression", g, Null,
        IF LHS.node = Null THEN Ret(LHS.s, Null)
        ELSE ParseBinOpRHS(LHS.s, 0, LHS.node))))

\* The while (true) loop of ParseBinOpRHS; one unfolding is one iteration.
BinOpLoop(s, expr_prec, LHS) ==
  Bind(GetTokenPrecedence(s), LAMBDA p :
    IF p.prec < expr_prec THEN Ret(p.s, LHS)
    ELSE
      Bind(ParsePrimary(GetNextToken(p.s)), LAMBDA RHS :    \* eat binop
        IF RHS.node = Null THEN Ret(RHS.s, Null)
        ELSE
          Bind(GetTokenPrecedence(RHS.s), LAMBDA q :
            Bind(IF RhsBindsTighter(p.prec, q.prec)
                 THEN ParseBinOpRHS(q.s, p.prec + 1, RHS.node)
                 ELSE Ret(q.s, RHS.node), LAMBDA RHS2 :
              IF RHS2.node = Null THEN Ret(RHS2.s, Null)
              ELSE BinOpLoop(RHS2.s, expr_prec,
                             Merge(p.s.cur_token, LHS, RHS2.node))))))

ParseBinOpRHS(s, expr_prec, LHS) ==
  Bind(s, LAMBDA g :
    Returns("ParseBinOpRHS", g, LHS, BinOpLoop(g, expr_prec, LHS)))

-----------------------------------------------------------------------------
(* parser: prototypes, definitions, externs, top-level expressions *)

PushName_Unique(arg_names, id) ==
  IF \E i \in 1..Len(arg_names) : arg_names[i] = id THEN arg_names
  ELSE Append(arg_names, id)

\* arg_names.push_back(IDENTIFIER_STR)
PushName(arg_names, id) == Append(arg_names, id)

\* while (GetNextToken() == token_identifier) arg_names.push_back(...)
RECURSIVE ReadArgNames(_, _)
ReadArgNames(s, arg_names) ==
  Bind(GetNextToken(s), LAMBDA s1 :
    IF s1.cur_token = token_identifier
    THEN ReadArgNames(s1, PushName(arg_names, s1.IDENTIFIER_STR))
    ELSE [s |-> s1, arg_names |-> arg_names])

ParsePrototype(s) ==
  Bind(s, LAMBDA g :
    Returns("ParsePrototype", g, Null,
      IF g.cur_token # token_identifier
      THEN LogErrorP(g, "Expected function name in prototype")
      ELSE Bind(GetNextToken(g), LAMBDA s1 :
             IF s1.cur_token # 40 THEN LogErrorP(s1, "Expected '(' in prototype")
             ELSE Bind(ReadArgNames(s1, <<>>), LAMBDA a :
                    IF a.s.cur_token # 41
                    THEN LogErrorP(a.s, "Expected ')' in prototype")
                    ELSE Ret(GetNextToken(a.s),      \* eat ')'.
                             PrototypeAST(g.IDENTIFIER_STR, a.arg_names))))))

ParseDefinition_NoProtoCheck(s) ==
  Bind(ParsePrototype(GetNextToken(s)), LAMBDA Proto :
    Returns("ParseDefinition", s, Null,
      Bind(ParseExpression(Proto.s), LAMBDA E :
        IF E.node # Null THEN Ret(E.s, FunctionAST(Proto.node, E.node))
        ELSE Ret(E.s, Null))))

ParseDefinition(s) ==
  Bind(ParsePrototype(GetNextToken(s)), LAMBDA Proto :      \* eat def.
    Returns("ParseDefinition", s, Null,
      IF Proto.node = Null THEN Ret(Proto.s, Null)
      ELSE Bind(ParseExpression(Proto.s), LAMBDA E :
             IF E.node # Null THEN Ret(E.s, FunctionAST(Proto.node, E.node))
             ELSE Ret(E.s, Null))))

ParseExtern(s) ==
  Returns("ParseExtern", s, Null, ParsePrototype(GetNextToken(s)))  \* eat extern.

ParseTopLevelExpr_AnonExpr(s) ==
  Bind(ParseExpression(s), LAMBDA E :
    Returns("ParseTopLevelExpr", s, Null,
      IF E.node # Null
      THEN Ret(E.s, FunctionAST(PrototypeAST(<<95, 95, 97, 110, 111, 110>>, <<>>),
                                E.node))
      ELSE Ret(E.s, Null)))

ParseTopLevelExpr(s) ==
  Bind(ParseExpression(s), LAMBDA E :
    Returns("ParseTopLevelExpr", s, Null,
      IF E.node # Null
      THEN Ret(E.s, FunctionAST(PrototypeAST(<<>>, <<>>), E.node))
      ELSE Ret(E.s, Null)))

-----------------------------------------------------------------------------
(* parser: top-level handlers *)

Recover_SkipTwo(s) == GetNextToken(GetNextToken(s))

\* "Skip token for error recovery."
Recover(s) == GetNextToken(s)

\* A handler's outcome: the globals after it and (history) what the Parse*
\* call returned, the functions that returned nullptr and those that
\* returned a node during it, the diagnostics it wrote and where they were
\* raised, whether the recovery step ran, the token that was current when
\* the Parse* call returned, with the number of tokens pulled and of
\* characters unread by then, and the token that is current, with the
\* number of tokens pulled, when the handler returns.
Handled(s0, r, s) ==
  [s |-> s, node |-> r.node, nulls |-> r.s.nulls, calls |-> r.s.calls,
   errs |-> SubSeq(r.s.err, Len(s0.err) + 1, Len(r.s.err)), raised |-> r.s.raised,
   recovered |-> r.node = Null, at |-> r.s.cur_token, n |-> r.s.ntok,
   rem |-> Len(Stream(r.s)), after |-> [tok |-> s.cur_token, n |-> s.ntok]]

HandleDefinition(s) ==
  Bind(ParseDefinition(s), LAMBDA r :
    Handled(s, r, IF r.node # Null THEN r.s ELSE Recover(r.s)))

HandleExtern(s) ==
  Bind(ParseExtern(s), LAMBDA r :
    Handled(s, r, IF r.node # Null THEN r.s ELSE Recover(r.s)))

HandleTopLevelExpr(s) ==
  Bind(ParseTopLevelExpr(s), LAMBDA r :
    Handled(s, r, IF r.node # Null THEN r.s ELSE Recover(r.s)))

-----------------------------------------------------------------------------
(* Inputs *)

\* All concatenations of at most n fragments of F.
RECURSIVE Words(_, _)
Words(F, n) ==
  IF n = 0 THEN {<<>>}
  ELSE LET W == Words(F, n - 1) IN W \cup {w \o f : w \in W, f \in F}

MaxLexFrags == 4

LexFrags ==
  { Str(<<"d", "e", "f">>), Str(<<"e", "x", "t", "e", "r", "n">>),
    Str(<<"D">>), Str(<<"1">>), Str(<<".">>), Str(<<" ">>), Str(<<"nl">>),
    Str(<<"cr">>), Str(<<"#">>), Str(<<"+">>) }

LexInputs == Words(LexFrags, MaxLexFrags)

\* Operator chains: primaries 1, 2, 3, ... joined by binary operators.
MaxOps == 3

BinOps == {Ord["<"], Ord["+"], Ord["-"], Ord["*"]}

Digit(i) == 48 + i

RECURSIVE Chains(_)
Chains(n) ==
  IF n = 0 THEN {<<Digit(1)>>}
  ELSE {c \o <<o, Digit(n + 1)>> : c \in {d \in Chains(n - 1) : Len(d) = 2 * n - 1},
                                  o \in BinOps}
       \cup Chains(n - 1)

ChainInputs == Chains(MaxOps)

\* Pieces of top-level constructs, well formed or not.
MaxFrags == 3

ParseFrags ==
  { Str(<<"d", "e", "f", " ", "f", "(">>), Str(<<"d", "e", "f", " ">>),
    Str(<<"e", "x", "t", "e", "r", "n", " ", "f", "(">>), Str(<<"x", " ">>),
    Str(<<"(">>), Str(<<")">>), Str(<<"1">>), Str(<<",">>), Str(<<";">>),
    Str(<<"+">>), Str(<<"*">>), Str(<<".">>) }

FragInputs == Words(ParseFrags, MaxFrags)

\* A prefix of tokens followed by a well-formed definition of g.
MaxJunk == 2

JunkFrags ==
  { Str(<<")">>), Str(<<"(">>), Str(<<",">>), Str(<<"1">>), Str(<<"+">>),
    Str(<<"x", " ">>), Str(<<"d", "e", "f", " ">>), Str(<<";">>), Str(<<".">>) }

DefG == Str(<<" ", "d", "e", "f", " ", "g", "(", ")", " ", "1">>)

RecoveryInputs == {w \o DefG : w \in Words(JunkFrags, MaxJunk) \ {<<>>}}

\* Calls of x: an argument's text and the tree it stands for.
MaxArgs == 2

Num(i) == NumberExprAST(Double(i, <<>>))

ArgAtoms ==
  { [text |-> Str(<<"1">>), node |-> Num(1)],
    [text |-> Str(<<"y">>), node |-> VariableExprAST(Str(<<"y">>))],
    [text |-> Str(<<"1", "+", "2">>),
     node |-> BinaryExprAST(Ord["+"], Num(1), Num(2))],
    [text |-> Str(<<"y", "(", "2", ")">>),
     node |-> CallExprAST(Str(<<"y">>), <<Num(2)>>)] }

RECURSIVE ArgLists(_)
ArgLists(n) ==
  IF n = 0 THEN {<<>>}
  ELSE LET W == ArgLists(n - 1) IN W \cup {Append(w, a) : w \in W, a \in ArgAtoms}

\* The texts of args joined by commas.
RECURSIVE Joined(_)
Joined(args) ==
  IF args = <<>> THEN <<>>
  ELSE IF Len(args) = 1 THEN args[1].text
  ELSE args[1].text \o <<Ord[","]>> \o Joined(Tail(args))

ArgNodes(args) == [i \in 1..Len(args) |-> args[i].node]

\* x( args, followed by tail.
CallText(args, tail) == Str(<<"x", "(">>) \o Joined(args) \o tail

\* What may follow an argument that is neither ',' nor ')' (nor an operator):
\* end of input, ';', a number, an identifier, a keyword.
BadFollowers ==
  { <<>>, Str(<<";", ")">>), Str(<<" ", "2", ")">>), Str(<<" ", "y", ")">>),
    Str(<<" ", "d", "e", "f">>) }

CallInputs ==
  {CallText(args, Str(<<")">>)) : args \in ArgLists(MaxArgs)}
  \cup {CallText(args, Str(<<",", ")">>)) : args \in ArgLists(MaxArgs) \ {<<>>}}
  \cup {CallText(args, t) : args \in ArgLists(MaxArgs) \ {<<>>}, t \in BadFollowers}

\* Definitions: def name(params) body, the parameters separated by blanks.
MaxParams == 3

DefNames == {Str(<<"f">>), Str(<<"x">>)}

ParamNames == {Str(<<"x">>), Str(<<"y">>)}

RECURSIVE ParamLists(_)
ParamLists(n) ==
  IF n = 0 THEN {<<>>}
  ELSE LET W == ParamLists(n - 1) IN W \cup {Append(w, a) : w \in W, a \in ParamNames}

RECURSIVE Spaced(_)
Spaced(names) ==
  IF names = <<>> THEN <<>> ELSE names[1] \o <<32>> \o Spaced(Tail(names))

Bodies ==
  { [text |-> Str(<<"1">>), node |-> Num(1)],
    [text |-> Str(<<"x", "+", "y">>),
     node |-> BinaryExprAST(Ord["+"], VariableExprAST(Str(<<"x">>)),
                            VariableExprAST(Str(<<"y">>)))] }

DefText(name, params, body) ==
  Str(<<"d", "e", "f", " ">>) \o name \o <<40>> \o Spaced(params) \o <<41, 32>>
    \o body.text

DefInputs ==
  {DefText(name, params, body) :
     name \in DefNames, params \in ParamLists(MaxParams), body \in Bodies}

\* Parenthesized chains among operators: a context is a chain over 7, 8, 9
\* in which the parenthesized expression takes the place of the 7.
MaxInnerOps == 1

Hole == Digit(7)

Contexts ==
  {<<Hole>>}
  \cup {<<Hole, o, Digit(9)>> : o \in BinOps}
  \cup {<<Digit(9), o, Hole>> : o \in BinOps}
  \cup {<<Digit(9), o, Hole, q, Digit(8)>> : o \in BinOps, q \in BinOps}

RECURSIVE Fill(_, _)
Fill(ctx, text) ==
  IF ctx = <<>> THEN <<>>
  ELSE (IF Head(ctx) = Hole THEN text ELSE <<Head(ctx)>>) \o Fill(Tail(ctx), text)

Parenthesized(inner) == <<40>> \o inner \o <<41>>

\* What may follow the inner expression instead of ')': end of input, ';',
\* a number, ',', '('.
Unclosed ==
  {<<>>, Str(<<";">>), Str(<<" ", "2", ")">>), Str(<<",", ")">>), Str(<<"(", ")">>)}

ParenInputs ==
  {Fill(ctx, Parenthesized(inner)) : ctx \in Contexts, inner \in Chains(MaxInnerOps)}
  \cup {Parenthesized(Parenthesized(inner)) : inner \in Chains(MaxInnerOps)}
  \cup {<<40>> \o inner \o f : inner \in Chains(MaxInnerOps), f \in Unclosed}

\* extern followed by pieces of prototypes, well formed or not.
MaxProtoFrags == 3

ProtoFrags ==
  { Str(<<"f">>), Str(<<"x", " ">>), Str(<<"(">>), Str(<<")">>), Str(<<",">>),
    Str(<<"1">>), Str(<<".">>) }

ExternInputs ==
  {Str(<<"e", "x", "t", "e", "r", "n", " ">>) \o w :
     w \in Words(ProtoFrags, MaxProtoFrags)}

Inputs ==
  ChainInputs \cup FragInputs \cup RecoveryInputs \cup CallInputs \cup DefInputs
    \cup ParenInputs \cup ExternInputs

-----------------------------------------------------------------------------
(* Lexer harness: GetToken called until it returns end of input or throws *)

\* One token as a caller sees it: the returned int and the global that
\* carries its payload.
TokenView(r) ==
  [tok |-> r.tok,
   id |-> IF r.tok = token_identifier THEN r.s.IDENTIFIER_STR ELSE <<>>,
   num |-> IF r.tok = token_number THEN r.s.NUM_VAL ELSE Double(0, <<>>),
   thrown |-> r.thrown]

InitLex ==
  /\ input \in LexInputs
  /\ rest = input
  /\ last_char = 32
  /\ IDENTIFIER_STR = <<>>
  /\ NUM_VAL = Double(0, <<>>)
  /\ cur_token = 0
  /\ BinopPrecedence = <<>>
  /\ err = <<>>
  /\ pc = "lex"
  /\ ntok = 0
  /\ parsed = <<>>
  /\ toks = <<>>

LexToken ==
  /\ pc = "lex"
  /\ \E r \in {GetToken(Globals)} :
       /\ SetGlobals(r.s)
       /\ toks' = Append(toks, [view |-> TokenView(r), start |-> r.start,
                                text |-> r.text, skipped |-> r.skipped,
                                commented |-> r.commented])
       /\ pc' = IF r.thrown THEN "aborted"
                ELSE IF r.tok = token_eof THEN "eof" ELSE "lex"
  /\ UNCHANGED <<input, parsed>>

NextLex == LexToken

SpecLex == InitLex /\ [][NextLex]_vars

-----------------------------------------------------------------------------
(* The driver: main() and MainLoop *)

Init ==
  /\ input \in Inputs
  /\ rest = input
  /\ last_char = 32
  /\ IDENTIFIER_STR = <<>>
  /\ NUM_VAL = Double(0, <<>>)
  /\ cur_token = 0
  /\ BinopPrecedence = <<>>
  /\ err = <<>>
  /\ pc = "main"
  /\ ntok = 0
  /\ parsed = <<>>
  /\ toks = <<>>

\* The reference precedence table: 1 is the lowest precedence.
ReferenceTable ==
  (Ord["<"] :> 10) @@ (Ord["+"] :> 20) @@ (Ord["-"] :> 20) @@ (Ord["*"] :> 40)

\* A driver step ends in the globals s, or in the death of the process when
\* std::stod threw during it.
Continue(s, next) ==
  IF s.aborted THEN pc' = "aborted" /\ UNCHANGED <<rest, last_char,
                      IDENTIFIER_STR, NUM_VAL, cur_token, BinopPrecedence, err, ntok>>
  ELSE pc' = next /\ SetGlobals(s)

\* main(): install the binary operators, prime the first token, run MainLoop.
Main ==
  /\ pc = "main"
  /\ \E s \in {GetNextToken([Globals EXCEPT !.BinopPrecedence = ReferenceTable])} :
       Continue(s, "loop")
  /\ UNCHANGED <<input, parsed, toks>>

\* case Token::token_eof: return;
MainLoopEof ==
  /\ pc = "loop"
  /\ cur_token = token_eof
  /\ pc' = "done"
  /\ UNCHANGED <<input, rest, last_char, IDENTIFIER_STR, NUM_VAL, cur_token,
                 BinopPrecedence, err, ntok, parsed, toks>>

\* case ';': GetNextToken();
MainLoopSemicolon ==
  /\ pc = "loop"
  /\ cur_token = 59
  /\ \E s \in {GetNextToken(Globals)} : Continue(s, "loop")
  /\ UNCHANGED <<input, parsed, toks>>

\* One Handle* call of MainLoop.
Dispatch(op, h) ==
  /\ Continue(h.s, "loop")
  /\ parsed' = IF h.s.aborted THEN parsed
               ELSE Append(parsed, [op |-> op, node |-> h.node, nulls |-> h.nulls,
                                    calls |-> h.calls, raised |-> h.raised,
                                    n |-> h.n, after |-> h.after,
                                    errs |-> h.errs, recovered |-> h.recovered,
                                    at |-> h.at, rem |-> h.rem])
  /\ UNCHANGED <<input, toks>>

MainLoopDefinition ==
  /\ pc = "loop"
  /\ cur_token = token_def
  /\ \E h \in {HandleDefinition(Globals)} : Dispatch("HandleDefinition", h)

MainLoopExtern ==
  /\ pc = "loop"
  /\ cur_token = token_extern
  /\ \E h \in {HandleExtern(Globals)} : Dispatch("HandleExtern", h)

MainLoopTopLevelExpr ==
  /\ pc = "loop"
  /\ cur_token \notin {token_eof, 59, token_def, token_extern}
  /\ \E h \in {HandleTopLevelExpr(Globals)} : Dispatch("HandleTopLevelExpr", h)

Next ==
  \/ Main
  \/ MainLoopEof
  \/ MainLoopSemicolon
  \/ MainLoopDefinition
  \/ MainLoopExtern
  \/ MainLoopTopLevelExpr

Spec == Init /\ [][Next]_vars

-----------------------------------------------------------------------------
(* Properties of the parser and the driver (checked under Spec) *)

\* The tokens of a whole input, as a fresh program would return them, up to
\* and including the end-of-input token (or the call that throws).
RECURSIVE TokenSeq(_)
TokenSeq(s) ==
  Bind(GetToken(s), LAMBDA r :
    IF r.thrown \/ r.tok = token_eof THEN <<TokenView(r)>>
    ELSE <<TokenView(r)>> \o TokenSeq(r.s))

TokensOf(str) == TokenSeq(StartGlobals(str))

Prec(op) == ReferenceTable[op]

\* The tokens of an expression tree built from one-digit numbers, in order.
RECURSIVE Flatten(_)
Flatten(e) ==
  IF e.kind = "Binary" THEN Flatten(e.LHS) \o <<e.op>> \o Flatten(e.RHS)
  ELSE IF e.kind = "Number" /\ e.val.fp = <<>> THEN <<48 + e.val.ip>>
  ELSE <<0>>

RECURSIVE LeftmostOp(_)
LeftmostOp(e) == IF e.LHS.kind = "Binary" THEN LeftmostOp(e.LHS) ELSE e.op

RECURSIVE RightmostOp(_)
RightmostOp(e) == IF e.RHS.kind = "Binary" THEN RightmostOp(e.RHS) ELSE e.op

\* Of two neighbouring operators the one nearer the root never has the
\* higher precedence.  (The operators next to e.op inside e are the
\* rightmost one of e.LHS and the leftmost one of e.RHS.)
RECURSIVE TighterBelow(_)
TighterBelow(e) ==
  e.kind = "Binary" =>
    /\ e.LHS.kind = "Binary" => Prec(RightmostOp(e.LHS)) >= Prec(e.op)
    /\ e.RHS.kind = "Binary" => Prec(LeftmostOp(e.RHS)) >= Prec(e.op)
    /\ TighterBelow(e.LHS)
    /\ TighterBelow(e.RHS)

\* The one Function a chain input is parsed to.
ChainParsed ==
  /\ Len(parsed) = 1
  /\ parsed[1].op = "HandleTopLevelExpr"
  /\ parsed[1].node.kind = "Function"

\* C1: a chain of primaries and binary operators of the reference table is
\* parsed to the tree over exactly these tokens in which, of two
\* neighbouring operators of different precedence, the higher one is below
\* the lower one (binds tighter), on either side.
C1_PrecedenceBindsTighter ==
  (input \in ChainInputs /\ pc = "done") =>
    /\ ChainParsed
    /\ Flatten(parsed[1].node.body) = input
    /\ TighterBelow(parsed[1].node.body)

\* 1+2*3 has been parsed to 1+(2*3).
C1_Witness ==
  /\ pc = "done"
  /\ input = Str(<<"1", "+", "2", "*", "3">>)
  /\ ChainParsed
  /\ parsed[1].node.body.op = Ord["+"]
  /\ parsed[1].node.body.RHS.kind = "Binary"
  /\ parsed[1].node.body.RHS.op = Ord["*"]

\* The left-nested tree of a chain p0 o1 p1 ... on pn.
RECURSIVE LeftNested(_)
LeftNested(chain) ==
  IF Len(chain) = 1 THEN NumberExprAST(Double(chain[1] - 48, <<>>))
  ELSE BinaryExprAST(chain[Len(chain) - 1],
                     LeftNested(SubSeq(chain, 1, Len(chain) - 2)),
                     NumberExprAST(Double(chain[Len(chain)] - 48, <<>>)))

SamePrecedence(chain) ==
  \A i, j \in {k \in 1..Len(chain) : k % 2 = 0} : Prec(chain[i]) = Prec(chain[j])

\* C2: a chain whose operators all have the same precedence is parsed to
\* the left-nested tree.
C2_LeftAssociative ==
  (input \in ChainInputs /\ SamePrecedence(input) /\ pc = "done") =>
    /\ ChainParsed
    /\ parsed[1].node.body = LeftNested(input)

\* 1-2+3 has been parsed to (1-2)+3.
C2_Witness ==
  /\ pc = "done"
  /\ input = Str(<<"1", "-", "2", "+", "3">>)
  /\ ChainParsed
  /\ parsed[1].node.body.op = Ord["+"]
  /\ parsed[1].node.body.LHS.kind = "Binary"
  /\ parsed[1].node.body.LHS.op = Ord["-"]

\* C3: every iteration of MainLoop either returns because the current token
\* is end-of-input or goes round the loop having pulled at least one token.
C3_EveryIterationAdvances ==
  [][pc = "loop" =>
       \/ cur_token = token_eof /\ pc' = "done"
       \/ pc' = "loop" /\ ntok' > ntok]_vars

\* The definition of g has been parsed as a definition.
GParsed ==
  \E i \in 1..Len(parsed) :
    /\ parsed[i].op = "HandleDefinition"
    /\ parsed[i].node.kind = "Function"
    /\ parsed[i].node.proto.name = Str(<<"g">>)

\* A recovery step has discarded the def of g's definition.
GDefSkipped ==
  \E i \in 1..Len(parsed) :
    /\ parsed[i].recovered
    /\ parsed[i].at = token_def
    /\ parsed[i].rem = Len(DefG) - 4

\* C4 as stated: after any prefix, the well-formed definition of g that
\* follows is parsed as a definition.
C4_DefinitionAlwaysParsed ==
  (input \in RecoveryInputs /\ pc = "done") => GParsed

\* C4 (amended): when MainLoop has returned, the definition of g has been
\* parsed as a definition exactly when no recovery step discarded its def.
C4_DefinitionParsedUnlessSkipped ==
  (input \in RecoveryInputs /\ pc = "done") => (GParsed <=> ~GDefSkipped)

\* )) def g() 1: two failed parses, two skipped tokens, then g.
C4_Witness ==
  /\ pc = "done"
  /\ input = Str(<<")", ")">>) \o DefG
  /\ Len(parsed) = 3
  /\ parsed[1].recovered /\ parsed[1].at = 41
  /\ parsed[2].recovered /\ parsed[2].at = 41
  /\ GParsed

\* No nullptr anywhere inside a node.
RECURSIVE Complete(_)
Complete(e) ==
  CASE e.kind = "Function" -> e.proto.kind = "Prototype" /\ Complete(e.body)
    [] e.kind = "Binary" -> Complete(e.LHS) /\ Complete(e.RHS)
    [] e.kind = "Call" -> \A k \in 1..Len(e.args) : Complete(e.args[k])
    [] e.kind \in {"Number", "Variable", "Prototype"} -> TRUE
    [] OTHER -> FALSE

TopRule(op) ==
  CASE op = "HandleDefinition" -> "ParseDefinition"
    [] op = "HandleExtern" -> "ParseExtern"
    [] op = "HandleTopLevelExpr" -> "ParseTopLevelExpr"

\* C7: when any parse function returned nullptr during a top-level parse,
\* the top-level parse function returned nullptr too (the last to do so), and
\* a node that is returned has no nullptr inside it.
C7_FailurePropagates ==
  \A i \in 1..Len(parsed) :
    /\ parsed[i].nulls # <<>> =>
         /\ parsed[i].node = Null
         /\ parsed[i].nulls[Len(parsed[i].nulls)] = TopRule(parsed[i].op)
    /\ parsed[i].node # Null => Complete(parsed[i].node)

\* A failure five calls deep has come up through ParseDefinition.
C7_Witness ==
  \E i \in 1..Len(parsed) :
    /\ parsed[i].op = "HandleDefinition"
    /\ Len(parsed[i].nulls) >= 5
    /\ parsed[i].nulls[1] = "ParsePrimary"
    /\ parsed[i].node = Null

\* C8: a top-level parse that returns nullptr has written exactly one
\* diagnostic, and one that returns a node has written none.
C8_OneDiagnosticPerFailure ==
  \A i \in 1..Len(parsed) :
    /\ parsed[i].node = Null => Len(parsed[i].errs) = 1
    /\ parsed[i].node # Null => parsed[i].errs = <<>>

\* A failure inside parentheses has come up through three callers with the
\* one diagnostic of the rule that found it.
C8_Witness ==
  \E i \in 1..Len(parsed) :
    /\ parsed[i].node = Null
    /\ Len(parsed[i].nulls) >= 4
    /\ \E k \in 1..Len(parsed[i].nulls) : parsed[i].nulls[k] = "ParseParenExpr"
    /\ parsed[i].errs = <<"unknown token when expecting an expression">>

StartsWith(str, prefix) ==
  Len(str) >= Len(prefix) /\ SubSeq(str, 1, Len(prefix)) = prefix

\* The Function a bare top-level expression is wrapped in.
Anonymous(body) == FunctionAST(PrototypeAST(<<>>, <<>>), body)

\* C11: an identifier followed by ( is parsed to the CallExpr of that
\* identifier whose arguments are the comma-separated expressions in source
\* order (none for x()); with a trailing comma the parse fails; with an
\* argument followed by a token other than ',' or ')' it fails with the
\* diagnostic for an expected ')' or ','.
C11_CallArguments ==
  (StartsWith(input, Str(<<"x", "(">>)) /\ Len(parsed) >= 1) =>
    \A args \in ArgLists(MaxArgs) :
      /\ input = CallText(args, Str(<<")">>)) =>
           /\ parsed[1].node = Anonymous(CallExprAST(Str(<<"x">>), ArgNodes(args)))
           /\ parsed[1].errs = <<>>
      /\ (args # <<>> /\ input = CallText(args, Str(<<",", ")">>))) =>
           parsed[1].node = Null
      /\ \A t \in BadFollowers :
           (args # <<>> /\ input = CallText(args, t)) =>
             /\ parsed[1].node = Null
             /\ parsed[1].errs = <<"Expected ')' or ',' in argument list">>

\* x(y(2),1+2) has been parsed to the call of x with these two arguments.
C11_Witness ==
  /\ pc = "done"
  /\ input = Str(<<"x", "(", "y", "(", "2", ")", ",", "1", "+", "2", ")">>)
  /\ Len(parsed) = 1
  /\ parsed[1].node.body.kind = "Call"
  /\ parsed[1].node.body.callee = Str(<<"x">>)
  /\ Len(parsed[1].node.body.args) = 2
  /\ parsed[1].node.body.args[1].kind = "Call"
  /\ parsed[1].node.body.args[2].kind = "Binary"

\* C12: def name(params) body is parsed to the Function whose prototype
\* has that name and exactly these parameters, in order and with duplicates
\* kept, and whose body is the expression after the ')'.
C12_DefinitionParts ==
  (StartsWith(input, Str(<<"d", "e", "f", " ">>)) /\ Len(parsed) >= 1) =>
    \A name \in DefNames, params \in ParamLists(MaxParams), body \in Bodies :
      input = DefText(name, params, body) =>
        /\ parsed[1].op = "HandleDefinition"
        /\ parsed[1].node = FunctionAST(PrototypeAST(name, params), body.node)

\* def f(x y x) x+y has been parsed: three parameters, the duplicate kept.
C12_Witness ==
  /\ pc = "done"
  /\ input = DefText(Str(<<"f">>), <<Str(<<"x">>), Str(<<"y">>), Str(<<"x">>)>>,
                     [text |-> Str(<<"x", "+", "y">>),
                      node |-> BinaryExprAST(Ord["+"], VariableExprAST(Str(<<"x">>)),
                                             VariableExprAST(Str(<<"y">>)))])
  /\ Len(parsed) = 1
  /\ parsed[1].node.proto.name = Str(<<"f">>)
  /\ parsed[1].node.proto.args = <<Str(<<"x">>), Str(<<"y">>), Str(<<"x">>)>>
  /\ parsed[1].node.body.kind = "Binary"

\* The outcome of the Handle* call made in this step, if it made one.
Handling(op) ==
  /\ pc = "loop"
  /\ Len(parsed') = Len(parsed) + 1
  /\ parsed'[Len(parsed')].op = op

Outcome == parsed'[Len(parsed')]

\* C13: every successful ParseTopLevelExpr returns the Function whose
\* prototype has the empty name and no parameters and whose body is the
\* expression ParseExpression returns from the same globals.
C13_AnonymousWrapping ==
  [][(Handling("HandleTopLevelExpr") /\ Outcome.node # Null) =>
       /\ Outcome.node.kind = "Function"
       /\ Outcome.node.proto = PrototypeAST(<<>>, <<>>)
       /\ Outcome.node.body = ParseExpression(Globals).node
       /\ Outcome.node.body.kind \in {"Number", "Variable", "Binary", "Call"}]_vars

\* The bare expression 1 has been wrapped: name "", no parameters, body 1.
C13_Witness ==
  /\ pc = "done"
  /\ input = Str(<<"1">>)
  /\ Len(parsed) = 1
  /\ parsed[1].op = "HandleTopLevelExpr"
  /\ parsed[1].node = FunctionAST(PrototypeAST(<<>>, <<>>), Num(1))

\* The number of tokens of an expression written without parentheses.
RECURSIVE ExprSize(_), SumSizes(_)
ExprSize(e) ==
  CASE e.kind \in {"Number", "Variable"} -> 1
    [] e.kind = "Binary" -> ExprSize(e.LHS) + 1 + ExprSize(e.RHS)
    [] e.kind = "Call" ->
         3 + SumSizes(e.args) + (IF e.args = <<>> THEN 0 ELSE Len(e.args) - 1)

SumSizes(es) == IF es = <<>> THEN 0 ELSE ExprSize(Head(es)) + SumSizes(Tail(es))

\* name ( params )
ProtoSize(p) == 3 + Len(p.args)

\* The number of tokens of the construct a successful call c has parsed:
\* those its node stands for, two for every parenthesized expression, and
\* for ParseBinOpRHS without those of the LHS it was given.
ConstructSize(c) ==
  2 * c.parens +
  CASE c.rule = "ParseDefinition" -> 1 + ProtoSize(c.node.proto) + ExprSize(c.node.body)
    [] c.rule = "ParseExtern" -> 1 + ProtoSize(c.node)
    [] c.rule = "ParsePrototype" -> ProtoSize(c.node)
    [] c.rule = "ParseTopLevelExpr" -> ExprSize(c.node.body)
    [] c.rule = "ParseBinOpRHS" -> ExprSize(c.node) - ExprSize(c.lhs)
    [] OTHER -> ExprSize(c.node)

\* The n-th of the tokens ts (the end-of-input token from their end on).
Nth(ts, n) == IF n <= Len(ts) THEN ts[n].tok ELSE token_eof

\* The n-th token of the input.
TokenAt(n) == Nth(TokensOf(input), n)

\* The inputs that are one well-formed construct.
WholeInputs ==
  ChainInputs \cup DefInputs
    \cup {CallText(args, Str(<<")">>)) : args \in ArgLists(MaxArgs)}

\* The program has ended: MainLoop has returned or std::stod has thrown.
\* parsed only grows, so the outcome of every handler that returned is in
\* the parsed of such a state.
Finished == pc \in {"done", "aborted"}

\* C14: a parse function that returns a node has pulled exactly as many
\* tokens as its construct contains, so that cur_token is the token right
\* after the construct; ParseBinOpRHS that returns the LHS it was given has
\* pulled none; an input that is one construct has been pulled up to its
\* end-of-input token and no further.
C14_LookaheadDiscipline ==
  (Finished /\ parsed # <<>>) =>
    Bind(TokensOf(input), LAMBDA ts :
      /\ \A i \in 1..Len(parsed) : \A k \in 1..Len(parsed[i].calls) :
            LET c == parsed[i].calls[k]
            IN  /\ c.pulled = ConstructSize(c)
                /\ c.at = Nth(ts, c.from + c.pulled)
                /\ (c.rule = "ParseBinOpRHS" /\ c.node = c.lhs) => c.pulled = 0
      /\ input \in WholeInputs =>
            /\ parsed[1].node # Null
            /\ parsed[1].at = token_eof
            /\ parsed[1].calls[Len(parsed[1].calls)].from
                 + parsed[1].calls[Len(parsed[1].calls)].pulled = Len(ts))

\* def f(x y ) x+y: ParsePrototype pulled 5 tokens, ParseBinOpRHS 2 for +y
\* and, called at the end of input, none; ParseDefinition pulled all 9.
C14_Witness ==
  /\ pc = "done"
  /\ input = Str(<<"d", "e", "f", " ", "f", "(", "x", " ", "y", " ", ")", " ",
                   "x", "+", "y">>)
  /\ Len(parsed) = 1
  /\ \E k \in 1..Len(parsed[1].calls) :
       parsed[1].calls[k].rule = "ParsePrototype" /\ parsed[1].calls[k].pulled = 5
  /\ \E k \in 1..Len(parsed[1].calls) :
       /\ parsed[1].calls[k].rule = "ParseBinOpRHS"
       /\ parsed[1].calls[k].pulled = 2
  /\ \E k \in 1..Len(parsed[1].calls) :
       /\ parsed[1].calls[k].rule = "ParseDefinition"
       /\ parsed[1].calls[k].pulled = 9
       /\ parsed[1].calls[k].at = token_eof

\* The tree ParseExpression makes of a text, in a fresh program.
TreeOf(text) ==
  ParseExpression(
    GetNextToken([StartGlobals(text) EXCEPT !.BinopPrecedence = ReferenceTable])).node

\* The tree e with the tree r in the place of the number 7.
RECURSIVE Subst(_, _)
Subst(e, r) ==
  IF e.kind = "Binary" THEN BinaryExprAST(e.op, Subst(e.LHS, r), Subst(e.RHS, r))
  ELSE IF e = Num(7) THEN r
  ELSE e

\* C16: a parenthesized expression is parsed to the tree of the expression
\* inside, with no node of its own, and among operators it stands where a
\* primary stands: the tree of the whole is the tree of the context with
\* the inner tree in the primary's place.  When the token after the inner
\* expression is not ')', ParseParenExpr writes the expected-')' diagnostic
\* and the parse returns no node.
C16_ParenthesesTransparent ==
  Finished =>
    /\ \A i \in 1..Len(parsed) : \A k \in 1..Len(parsed[i].calls) :
          parsed[i].calls[k].rule = "ParseParenExpr" =>
            /\ k > 1
            /\ parsed[i].calls[k - 1].rule = "ParseExpression"
            /\ parsed[i].calls[k - 1].from = parsed[i].calls[k].from + 1
            /\ parsed[i].calls[k - 1].node = parsed[i].calls[k].node
    /\ ((StartsWith(input, <<40>>) \/ StartsWith(input, <<Digit(9)>>))
          /\ Len(parsed) >= 1) =>
          \A inner \in Chains(MaxInnerOps) :
            /\ \A ctx \in Contexts :
                 input = Fill(ctx, Parenthesized(inner)) =>
                   parsed[1].node = Anonymous(Subst(TreeOf(ctx), TreeOf(inner)))
            /\ input = Parenthesized(Parenthesized(inner)) =>
                 parsed[1].node = Anonymous(TreeOf(inner))
            /\ \A f \in Unclosed :
                 input = <<40>> \o inner \o f =>
                   /\ parsed[1].node = Null
                   /\ parsed[1].errs = <<"expected ')'">>
                   /\ parsed[1].nulls[1] = "ParseParenExpr"

\* 9*(1+2)-8 has been parsed to (9*(1+2))-8.
C16_Witness ==
  /\ pc = "done"
  /\ input = Str(<<"9", "*", "(", "1", "+", "2", ")", "-", "8">>)
  /\ Len(parsed) = 1
  /\ parsed[1].node.body =
       BinaryExprAST(Ord["-"],
         BinaryExprAST(Ord["*"], Num(9), BinaryExprAST(Ord["+"], Num(1), Num(2))),
         Num(8))

\* GetToken throws instead of returning the n-th token of the input.
ThrownAt(n) ==
  LET ts == TokensOf(input) IN n <= Len(ts) /\ ts[n].thrown

\* The number of identifier tokens in a row from the n-th token on.
RECURSIVE IdRun(_)
IdRun(n) == IF TokenAt(n) = token_identifier THEN 1 + IdRun(n + 1) ELSE 0

\* The diagnostic of the one of the three cases that the tokens from the
\* n-th on are in, "" when they are in none.
PrototypeFailure(n) ==
  IF TokenAt(n) # token_identifier THEN "Expected function name in prototype"
  ELSE IF TokenAt(n + 1) # 40 THEN "Expected '(' in prototype"
  ELSE IF TokenAt(n + 2 + IdRun(n + 2)) # 41 THEN "Expected ')' in prototype"
  ELSE ""

\* ParsePrototype as ParseExtern calls it when MainLoop is at an extern
\* that is followed by a token.
AtExtern == pc = "loop" /\ cur_token = token_extern /\ ~ThrownAt(ntok + 1)

PrototypeCall == ParsePrototype(GetNextToken(Globals))

\* C17: ParsePrototype returns: without a Prototype and with the case's
\* diagnostic when the current token is not an identifier, the token after
\* the name is not '(' or the token that ends the run of parameter
\* identifiers is not ')'; with a Prototype in every other case.
C17_PrototypeFailsInThreeCases ==
  AtExtern =>
    /\ ~PrototypeCall.s.aborted
    /\ PrototypeFailure(ntok + 1) # "" =>
         /\ PrototypeCall.node = Null
         /\ PrototypeCall.s.err = Append(err, PrototypeFailure(ntok + 1))
    /\ PrototypeFailure(ntok + 1) = "" =>
         /\ PrototypeCall.node.kind = "Prototype"
         /\ PrototypeCall.s.err = err

\* Tokens of every kind: the named tokens, registered operators, other
\* ASCII characters (the first and the last among them), non-ASCII ones.
TokenSamples ==
  {token_eof, token_def, token_extern, token_identifier, token_number}
    \cup BinOps \cup {0, 40, 41, 59, 127} \cup {128, 255}

\* What a lookup has to return for the current token tok.
Registered(tok) == IF tok \in DOMAIN ReferenceTable THEN ReferenceTable[tok] ELSE -1

\* A lookup made with tok as the current token.
Lookup(s, tok) == GetTokenPrecedence([s EXCEPT !.cur_token = tok])

\* C18: whatever lookups the program has made so far, GetTokenPrecedence
\* returns the registered precedence of a current token that is in the
\* table and -1 for every other one, and after all the lookups of a run it
\* still does after one more lookup of any token, registered or not.
C18_PrecedenceLookup ==
  /\ pc \in {"loop", "done"} =>
       /\ GetTokenPrecedence(Globals).prec = Registered(cur_token)
       /\ \A c \in TokenSamples : Lookup(Globals, c).prec = Registered(c)
  /\ pc = "done" =>
       \A c \in TokenSamples :
         Bind(Lookup(Globals, c).s, LAMBDA s :
           \A d \in TokenSamples : Lookup(s, d).prec = Registered(d))

\* In 9+(1+2)-8 a lookup of ')' has been made (the map has an entry for it)
\* and the later lookup of '-' has found it an operator.
C18_Witness ==
  /\ pc = "done"
  /\ input = Str(<<"9", "+", "(", "1", "+", "2", ")", "-", "8">>)
  /\ 41 \in DOMAIN BinopPrecedence
  /\ BinopPrecedence[41] = 0
  /\ Len(parsed) = 1
  /\ parsed[1].node.body.op = Ord["-"]

\* The Parse* call the iteration of MainLoop that starts here makes.
TopLevelParse ==
  IF cur_token = token_def THEN ParseDefinition(Globals)
  ELSE IF cur_token = token_extern THEN ParseExtern(Globals)
  ELSE ParseTopLevelExpr(Globals)

\* A Handle* call has returned in this step and its Parse* call had failed.
FailedParse ==
  /\ pc = "loop"
  /\ Len(parsed') = Len(parsed) + 1
  /\ Outcome.node = Null

\* C19: a top-level parse that returns nullptr has raised its diagnostic
\* at the token that is current when it returns, having pulled no token
\* since; the recovery step of the handler pulls one token, so that the
\* next iteration of MainLoop starts at the token right after the one the
\* diagnostic was raised at.
C19_RecoveryDiscardsOffendingToken ==
  [][/\ (pc = "loop" /\ cur_token \notin {token_eof, 59}) =>
          Bind(TopLevelParse, LAMBDA r :
            (r.node = Null /\ ~r.s.aborted) =>
              /\ Len(r.s.raised) = 1
              /\ r.s.raised[1].n = r.s.ntok
              /\ r.s.raised[1].tok = r.s.cur_token
              /\ r.s.raised[1].tok = TokenAt(r.s.ntok))
     /\ FailedParse =>
          /\ Len(Outcome.raised) = 1
          /\ Outcome.n = Outcome.raised[1].n
          /\ Outcome.at = Outcome.raised[1].tok
          /\ pc' = "loop"
          /\ ntok' = Outcome.raised[1].n + 1
          /\ cur_token' = TokenAt(Outcome.raised[1].n + 1)]_vars

\* In )) def g() 1 the first diagnostic was raised at the first ')', which
\* was discarded; the second at the second ')', and the iteration after it
\* started at def.
C19_Witness ==
  /\ input = Str(<<")", ")">>) \o DefG
  /\ Len(parsed) >= 2
  /\ parsed[1].node = Null
  /\ parsed[1].raised = <<[tok |-> 41, n |-> 1]>>
  /\ parsed[1].after = [tok |-> 41, n |-> 2]
  /\ parsed[2].node = Null
  /\ parsed[2].raised = <<[tok |-> 41, n |-> 2]>>
  /\ parsed[2].after = [tok |-> token_def, n |-> 3]

\* Characters that stdin may offer after it has once reported its end.
MoreInput == {<<>>, Str(<<"1">>), Str(<<"x", " ">>), Str(<<"nl", "+">>)}

\* C20: once GetToken has returned end-of-input, every later call returns
\* end-of-input again (whatever stdin offers by then), so that the
\* recovery step after a parse that failed at end of input leaves
\* cur_token at end-of-input, and the iteration of MainLoop that finds
\* cur_token at end-of-input returns.
C20_EndOfInputSticky ==
  [][/\ (pc = "loop" /\ cur_token = token_eof) =>
          /\ \A more \in MoreInput :
               Bind(GetToken([Globals EXCEPT !.rest = more]), LAMBDA r :
                 /\ r.tok = token_eof /\ ~r.thrown
                 /\ r.s.last_char = EOF
                 /\ GetToken(r.s).tok = token_eof)
          /\ pc' = "done"
          /\ parsed' = parsed
     /\ (FailedParse /\ Outcome.at = token_eof) =>
          /\ pc' = "loop"
          /\ cur_token' = token_eof
          /\ ntok' = Outcome.n + 1]_vars

\* def followed by nothing: the parse failed at end of input, the recovery
\* step pulled end-of-input again, and MainLoop has returned.
C20_Witness ==
  /\ pc = "done"
  /\ input = Str(<<"d", "e", "f", " ">>)
  /\ Len(parsed) = 1
  /\ parsed[1].op = "HandleDefinition"
  /\ parsed[1].node = Null
  /\ parsed[1].at = token_eof
  /\ parsed[1].after = [tok |-> token_eof, n |-> 3]
  /\ ntok = 3

-----------------------------------------------------------------------------
(* Properties of the lexer (checked under SpecLex) *)

LexFinished == pc \in {"eof", "aborted"}

\* Index in input of the first character of the token toks[i].
TokIndex(i) == Len(input) - toks[i].start + 1

\* The number of '.' in a text.
NumDots(text) == Cardinality({i \in 1..Len(text) : text[i] = 46})

\* C5: the tokenizer never fails: every call of GetToken returns a token; no
\* call aborts instead of returning, whatever the characters are (numeric
\* text made only of '.' included).
C5_TokenizerNeverFails ==
  \A i \in 1..Len(toks) : ~toks[i].view.thrown

\* C6: numeric text with more than one '.' is never turned into a number
\* token (whose value could only be that of a prefix of the text).
C6_MalformedNumberRejected ==
  \A i \in 1..Len(toks) :
    NumDots(toks[i].text) > 1 => toks[i].view.tok # token_number

\* str with every comment (a '#', the characters up to the next '\n' or
\* '\r', and that terminator if there is one) replaced by gap.
RECURSIVE ReplaceComments(_, _)
ReplaceComments(str, gap) ==
  IF \A i \in 1..Len(str) : str[i] # 35 THEN str
  ELSE LET h == CHOOSE i \in 1..Len(str) :
                  str[i] = 35 /\ \A j \in 1..(i - 1) : str[j] # 35
           body == Drop(str, h)
           e == IF \E i \in 1..Len(body) : body[i] \in {10, 13}
                THEN CHOOSE i \in 1..Len(body) :
                       body[i] \in {10, 13} /\ \A j \in 1..(i - 1) : body[j] \notin {10, 13}
                ELSE Len(body)
       IN  SubSeq(str, 1, h - 1) \o gap \o ReplaceComments(Drop(body, e), gap)

TokViews == [i \in 1..Len(toks) |-> toks[i].view]

\* C9 as stated: the tokens of an input (one that is tokenized up to its
\* end-of-input token) are the tokens of the input with every comment
\* (terminator included) removed.
C9_CommentsRemoved ==
  pc = "eof" => TokViews = TokensOf(ReplaceComments(input, <<>>))

\* C9 (amended): the tokens of an input are the tokens of the input with
\* every comment (terminator included) replaced by one space: a comment
\* produces no token and separates the tokens on its two sides.
C9_CommentsAreSpace ==
  LexFinished => TokViews = TokensOf(ReplaceComments(input, <<32>>))

\* A comment between two numbers with no other separator: both are tokens.
C9_Witness ==
  /\ pc = "eof"
  /\ Len(toks) = 3
  /\ toks[1].view.tok = token_number
  /\ toks[2].view.tok = token_number
  /\ input[TokIndex(1) + Len(toks[1].text)] = 35
  /\ \E k \in 1..Len(input) : input[k] = 13 /\ k < TokIndex(2)

\* The maximal alphanumeric run of input that starts at index i.
RunAt(i) ==
  LET j == CHOOSE j \in i..Len(input) :
             /\ \A k \in i..j : isalnum(input[k])
             /\ j < Len(input) => ~isalnum(input[j + 1])
  IN  SubSeq(input, i, j)

\* C10: a token that starts at a letter is the keyword def or extern
\* exactly when the maximal alphanumeric run starting there is "def" or
\* "extern", and otherwise the identifier token with the run as its text.
C10_KeywordsExact ==
  \A i \in 1..Len(toks) :
    (toks[i].start > 0 /\ isalpha(input[TokIndex(i)])) =>
      LET run == RunAt(TokIndex(i))
          v == toks[i].view
      IN  /\ v.tok = token_def <=> run = Str(<<"d", "e", "f">>)
          /\ v.tok = token_extern <=> run = Str(<<"e", "x", "t", "e", "r", "n">>)
          /\ v.tok \in {token_def, token_extern, token_identifier}
          /\ v.tok = token_identifier => v.id = run

\* A run that only begins with "def" has been returned as an identifier, and
\* a def between whitespace as the keyword.
C10_Witness ==
  /\ Len(toks) >= 2
  /\ toks[1].view.tok = token_identifier
  /\ Len(toks[1].view.id) > 3
  /\ SubSeq(toks[1].view.id, 1, 3) = Str(<<"d", "e", "f">>)
  /\ toks[2].view.tok = token_def
  /\ input[TokIndex(2) - 1] \in SpaceChars

\* Index in input of the last character of the token before toks[i].
PrevEnd(i) == IF i = 1 THEN 0 ELSE TokIndex(i - 1) + Len(toks[i - 1].text) - 1

\* The characters of input between the token before toks[i] and toks[i].
Gap(i) == SubSeq(input, PrevEnd(i) + 1, TokIndex(i) - 1)

\* What the whitespace loop of the call went past in input (in the first
\* call it also goes past the blank last_char starts with).
SkippedInput(i) == IF i = 1 THEN Tail(toks[i].skipped) ELSE toks[i].skipped

\* C15 as stated: in a call that meets no comment, the whitespace loop at
\* the start of GetToken skips only space and tab characters, never a
\* newline or a carriage return.
C15_SkipsOnlySpaceAndTab ==
  \A i \in 1..Len(toks) :
    ~toks[i].commented =>
      \A k \in 1..Len(toks[i].skipped) : IsSpace(toks[i].skipped[k])

\* C15 (amended): the whitespace loop at the start of GetToken skips every
\* character isspace accepts, newline and carriage return included: in a
\* call that meets no comment it goes past exactly the characters between
\* the previous token and the returned one, all of them whitespace, and the
\* returned token does not start at a whitespace character.
C15_SkipsAllWhitespace ==
  \A i \in 1..Len(toks) :
    /\ \A k \in 1..Len(toks[i].skipped) : isspace(toks[i].skipped[k])
    /\ toks[i].start > 0 => ~isspace(input[TokIndex(i)])
    /\ toks[i].view.tok \notin SpaceChars
    /\ ~toks[i].commented => SkippedInput(i) = Gap(i)

\* Between two numbers a newline and a carriage return, outside any
\* comment, have been skipped by the whitespace loop.
C15_Witness ==
  /\ Len(toks) >= 2
  /\ toks[1].view.tok = token_number
  /\ toks[2].view.tok = token_number
  /\ ~toks[2].commented
  /\ toks[2].skipped = <<10, 13>>

====
